---- MODULE Spec2Model ----
(***************************************************************************)
(* Model of backon's BlockingRetryWithContext                              *)
(* (src/backon/src/blocking_retry_with_context.rs).                        *)
(*                                                                         *)
(* One executor is built by `retry(builder)`, configured with `context`,   *)
(* `sleep`, `when` and `notify`, and consumed by `call`.  The body of      *)
(* `call` is split at every call it makes to caller-supplied code (the     *)
(* Operation `f`, the predicate, the Backoff, the notify hook and the      *)
(* sleeper), so that the order of those calls is visible.                  *)
(*                                                                         *)
(* Option<X> is a sequence: <<>> is None and <<x>> is Some(x).             *)
(* Result<T, E> is a record [ok, val, err]; see Ok and Err.                *)
(***************************************************************************)
EXTENDS Integers, Sequences, FiniteSets, TLC

\* Longest Backoff the builder hands to `retry`.
MaxBackoff == 2

\* Invocations explored of a call whose Backoff never signals exhaustion.
MaxAttempts == 2

\* Longest Backoff of the executors whose call is followed to its return.
LiveBackoff == 1

\* Durations (in ms) a Backoff may yield; zero is a legal duration.
Durations == {0, 1, 2}

\* Error values the Operation may produce (type E).
Errors == {"retryable", "fatal"}

\* Success values the Operation may produce (type T).
Values == {7, 42}

\* Contexts the caller may pass to `context` (type Ctx, a counter).
Contexts == {0, 1}

\* What one Operation invocation adds to the counter in its context.
CtxDeltas == {0, 1}

\* Predicates: the one installed by `new` (`|_| true`) and the ones passed to
\* `when`.  A predicate is an FnMut(&E) -> bool, code of the caller with state
\* of its own: what it answers at one evaluation is up to the caller, as the
\* outcome of an invocation of the Operation is.
DefaultRetryable == "default_predicate"
Predicates == {"user_predicate"}

\* The configuration methods, in the order the source declares them.
Methods == <<"context", "sleep", "when", "notify">>

\* The orders in which a caller can apply each configuration method once.
Orders ==
    {p \in [1..4 -> 1..4] : \A i, j \in 1..4 : p[i] = p[j] => i = j}

\* What two executors that are compared are configured with.
PairArgs ==
    [context |-> 1, sleep |-> "user_sleeper", when |-> "user_predicate",
     notify |-> "user_notify"]

\* What the predicate given to two executors that are compared answers at its
\* n-th evaluation, on error e.  It keeps count: it accepts every error the
\* first time it is asked, and only "retryable" after that.
PairPredicate(n, e) == IF n = 1 THEN TRUE ELSE e = "retryable"

\* Longest Backoff of two executors that are compared.
PairBackoff == 2

\* Notify hooks: the one installed by `new` and the ones passed to `notify`.
DefaultNotify == "default_notify"
UserNotifies == {"user_notify"}

\* Sleepers: the one installed by `new` and the ones passed to `sleep`.
DefaultBlockingSleeper == "DefaultBlockingSleeper"
UserSleepers == {"user_sleeper"}

None == <<>>
Some(x) == <<x>>

Ok(v) == [ok |-> TRUE, val |-> v, err |-> ""]
Err(e) == [ok |-> FALSE, val |-> 0, err |-> e]

\* Everything a Backoff of at most n durations can yield before exhaustion.
BackoffsUpTo(n) == UNION {[1..k -> Durations] : k \in 0..n}

VARIABLES
    backoff,    \* self.backoff: the durations the Backoff has still to yield
    retryable,  \* self.retryable: the installed predicate
    notify,     \* self.notify: the installed notify hook
    sleep_fn,   \* self.sleep_fn: the installed sleeper
    ctx,        \* self.ctx: Option<Ctx>
    pc,         \* position of the executor: "built" until `call`, then in `call`
    lctx,       \* call's local `ctx`: Option, None while moved into `f`
    arg,        \* the context held by the in-flight invocation of `f`: Option
    result,     \* call's local `result`: Option<Result>
    dur,        \* call's local `dur`: Option<Duration>
    ret,        \* what `call` returned: Option<[ctx, result]>
    durations,  \* everything the Backoff yields, as built (never changes)
    supplied,   \* the argument of the latest `context` call: Option
    begun,      \* number of invocations of `f` begun
    opLog,      \* per returned invocation of `f`: [cin, cout, res]
    predLog,    \* the evaluations of the predicate, in order: [err, ans]
    nextLog,    \* the results of backoff.next(), in order
    notifyLog,  \* the calls of the notify hook: [hook, err, dur]
    sleepLog,   \* the calls of the sleeper: [sleeper, dur]
    applied,    \* the configuration methods called on this executor so far
    endless,    \* whether the Backoff starts over instead of signalling exhaustion
    other,      \* a second executor, parked while this one steps: Option<Exec>
    script,     \* the Operation script two executors share: [d, r] per invocation
    plan        \* the order in which the caller configures this executor

fields == <<backoff, retryable, notify, sleep_fn, ctx>>
locals == <<lctx, arg, result, dur, ret>>
logs   == <<begun, opLog, predLog, nextLog, notifyLog, sleepLog>>
session == <<endless, other, script, plan>>
aux    == <<applied, session>>
vars   == <<fields, pc, locals, durations, supplied, aux, logs>>

\* retry(builder) = new(f, builder.build()): lines 25-27 and 55-64.  The
\* builder builds one of the Backoffs in bs.
New(bs) ==
    /\ backoff \in bs
    /\ durations = backoff
    /\ retryable = DefaultRetryable
    /\ notify = DefaultNotify
    /\ sleep_fn = DefaultBlockingSleeper
    /\ ctx = None
    /\ pc = "built"
    /\ lctx = None
    /\ arg = None
    /\ result = None
    /\ dur = None
    /\ ret = None
    /\ supplied = None
    /\ begun = 0
    /\ opLog = <<>>
    /\ predLog = <<>>
    /\ nextLog = <<>>
    /\ notifyLog = <<>>
    /\ sleepLog = <<>>
    /\ applied = {}

\* One executor whose Backoff signals exhaustion after its last duration.
Init ==
    /\ New(BackoffsUpTo(MaxBackoff))
    /\ endless = FALSE
    /\ other = None
    /\ script = <<>>
    /\ plan = <<>>

\* One executor whose Backoff either signals exhaustion after its last duration
\* or starts over and never signals it.
LiveInit ==
    /\ New(BackoffsUpTo(LiveBackoff))
    /\ endless \in BOOLEAN
    /\ endless => backoff # <<>>
    /\ other = None
    /\ script = <<>>
    /\ plan = <<>>

----
\* Configuration methods (lines 78-142).  Each consumes the executor and
\* rebuilds it with one field replaced.

Context(c) ==
    /\ pc = "built"
    /\ ctx' = Some(c)
    /\ supplied' = Some(c)
    /\ applied' = applied \cup {"context"}
    /\ UNCHANGED <<backoff, retryable, notify, sleep_fn, pc, locals, durations, logs, session>>

\* A mutant of Sleep: the rebuilt executor loses its context (`ctx: None`).
SleepDropsCtx(s) ==
    /\ pc = "built"
    /\ sleep_fn' = s
    /\ ctx' = None
    /\ applied' = applied \cup {"sleep"}
    /\ UNCHANGED <<backoff, retryable, notify, pc, locals, durations, supplied, logs, session>>

Sleep(s) ==
    /\ pc = "built"
    /\ sleep_fn' = s
    /\ applied' = applied \cup {"sleep"}
    /\ UNCHANGED <<backoff, retryable, notify, ctx, pc, locals, durations, supplied, logs, session>>

\* A mutant of When: the rebuilt executor gets the no-op notify hook of `new`
\* again.
WhenResetsNotify(p) ==
    /\ pc = "built"
    /\ retryable' = p
    /\ notify' = DefaultNotify
    /\ applied' = applied \cup {"when"}
    /\ UNCHANGED <<backoff, sleep_fn, ctx, pc, locals, durations, supplied, logs, session>>

When(p) ==
    /\ pc = "built"
    /\ retryable' = p
    /\ applied' = applied \cup {"when"}
    /\ UNCHANGED <<backoff, notify, sleep_fn, ctx, pc, locals, durations, supplied, logs, session>>

Notify(n) ==
    /\ pc = "built"
    /\ notify' = n
    /\ applied' = applied \cup {"notify"}
    /\ UNCHANGED <<backoff, retryable, sleep_fn, ctx, pc, locals, durations, supplied, logs, session>>

----
\* call (lines 156-180).

\* A mutant of CallTake: a missing context defaults to 0 instead of panicking.
CallTakeOrDefault ==
    /\ pc = "built"
    /\ lctx' = IF ctx = None THEN Some(0) ELSE ctx
    /\ ctx' = None
    /\ pc' = "invoke"
    /\ UNCHANGED <<backoff, retryable, notify, sleep_fn, arg, result, dur, ret,
                   durations, supplied, aux, logs>>

\* Line 157: let mut ctx = self.ctx.take().expect("context must be valid").
CallTake ==
    /\ pc = "built"
    /\ IF ctx = None
         THEN /\ pc' = "panicked"
              /\ UNCHANGED <<ctx, lctx>>
         ELSE /\ lctx' = ctx
              /\ ctx' = None
              /\ pc' = "invoke"
    /\ UNCHANGED <<backoff, retryable, notify, sleep_fn, arg, result, dur, ret,
                   durations, supplied, aux, logs>>

\* A mutant of InvokeF: the Operation gets a copy of the context and the
\* executor keeps its own.
InvokeFAliased ==
    /\ pc = "invoke"
    /\ endless => begun < MaxAttempts
    /\ arg' = lctx
    /\ lctx' = lctx
    /\ result' = None
    /\ dur' = None
    /\ begun' = begun + 1
    /\ pc' = "in_f"
    /\ UNCHANGED <<fields, ret, durations, supplied, aux,
                   opLog, predLog, nextLog, notifyLog, sleepLog>>

\* Line 159, entry: (self.f)(ctx) moves the context into the Operation.
\* A call whose Backoff never signals exhaustion is followed for MaxAttempts
\* invocations.
InvokeF ==
    /\ pc = "invoke"
    /\ endless => begun < MaxAttempts
    /\ arg' = lctx
    /\ lctx' = None
    /\ result' = None
    /\ dur' = None
    /\ begun' = begun + 1
    /\ pc' = "in_f"
    /\ UNCHANGED <<fields, ret, durations, supplied, aux,
                   opLog, predLog, nextLog, notifyLog, sleepLog>>

\* A mutant of ReturnF: the context returned by `f` is dropped and the one
\* passed in is kept (`ctx = xctx` lost).
ReturnFKeepOldCtx(d, r) ==
    /\ pc = "in_f"
    /\ lctx' = arg
    /\ arg' = None
    /\ result' = Some(r)
    /\ opLog' = Append(opLog, [cin |-> arg[1], cout |-> arg[1] + d, res |-> r])
    /\ pc' = "match"
    /\ UNCHANGED <<fields, dur, ret, durations, supplied, aux,
                   begun, predLog, nextLog, notifyLog, sleepLog>>

\* Lines 159-161, return: `f` hands back (xctx, result); ctx = xctx.
\* The Operation adds d to the counter in the context and produces r.
ReturnF(d, r) ==
    /\ pc = "in_f"
    /\ lctx' = Some(arg[1] + d)
    /\ arg' = None
    /\ result' = Some(r)
    /\ opLog' = Append(opLog, [cin |-> arg[1], cout |-> arg[1] + d, res |-> r])
    /\ pc' = "match"
    /\ UNCHANGED <<fields, dur, ret, durations, supplied, aux,
                   begun, predLog, nextLog, notifyLog, sleepLog>>

\* A mutant of MatchResult: Ok decides the return value but the loop goes on.
MatchResultNoReturn ==
    /\ pc = "match"
    /\ IF result[1].ok
         THEN /\ ret' = Some([ctx |-> lctx[1], result |-> result[1]])
              /\ pc' = "invoke"
         ELSE /\ pc' = "retryable"
              /\ UNCHANGED ret
    /\ UNCHANGED <<fields, lctx, arg, result, dur, durations, supplied, aux, logs>>

\* A mutant of MatchResult: the predicate is asked about every result.
MatchResultAlwaysChecks ==
    /\ pc = "match"
    /\ pc' = "retryable"
    /\ UNCHANGED <<fields, locals, durations, supplied, aux, logs>>

\* Lines 163-165: match result { Ok(v) => return (ctx, Ok(v)), Err(err) => ... }.
MatchResult ==
    /\ pc = "match"
    /\ IF result[1].ok
         THEN /\ ret' = Some([ctx |-> lctx[1], result |-> result[1]])
              /\ pc' = "returned"
         ELSE /\ pc' = "retryable"
              /\ UNCHANGED ret
    /\ UNCHANGED <<fields, lctx, arg, result, dur, durations, supplied, aux, logs>>

\* A mutant of CheckRetryable: the predicate is evaluated but its answer ignored.
CheckRetryableIgnored(a) ==
    /\ pc = "retryable"
    /\ retryable = DefaultRetryable => a
    /\ predLog' = Append(predLog, [err |-> result[1].err, ans |-> a])
    /\ pc' = "next"
    /\ UNCHANGED ret
    /\ UNCHANGED <<fields, lctx, arg, result, dur, durations, supplied, aux,
                   begun, opLog, nextLog, notifyLog, sleepLog>>

\* A mutant of CheckRetryable: the Backoff is consulted before the predicate,
\* so a rejected failure consumes a Backoff result too.
CheckRetryableConsultsFirst(a) ==
    /\ pc = "retryable"
    /\ retryable = DefaultRetryable => a
    /\ predLog' = Append(predLog, [err |-> result[1].err, ans |-> a])
    /\ IF ~a
         THEN /\ ret' = Some([ctx |-> lctx[1], result |-> result[1]])
              /\ nextLog' = Append(nextLog, IF backoff = <<>> THEN None
                                                              ELSE Some(Head(backoff)))
              /\ backoff' = IF backoff = <<>> THEN backoff ELSE Tail(backoff)
              /\ pc' = "returned"
         ELSE /\ pc' = "next"
              /\ UNCHANGED <<ret, nextLog, backoff>>
    /\ UNCHANGED <<retryable, notify, sleep_fn, ctx, lctx, arg, result, dur,
                   durations, supplied, aux, begun, opLog, notifyLog, sleepLog>>

\* A mutant of CheckRetryable: a rejected failure still advances the Backoff.
CheckRetryableAdvances(a) ==
    /\ pc = "retryable"
    /\ retryable = DefaultRetryable => a
    /\ predLog' = Append(predLog, [err |-> result[1].err, ans |-> a])
    /\ IF ~a
         THEN /\ ret' = Some([ctx |-> lctx[1], result |-> result[1]])
              /\ backoff' = IF backoff = <<>> THEN backoff ELSE Tail(backoff)
              /\ pc' = "returned"
         ELSE /\ pc' = "next"
              /\ UNCHANGED <<ret, backoff>>
    /\ UNCHANGED <<retryable, notify, sleep_fn, ctx, lctx, arg, result, dur,
                   durations, supplied, aux, begun, opLog, nextLog, notifyLog, sleepLog>>

\* Lines 166-168: if !(self.retryable)(&err) { return (ctx, Err(err)); }.
\* The predicate answers a; the one `new` installs answers true (line 60).
CheckRetryable(a) ==
    /\ pc = "retryable"
    /\ retryable = DefaultRetryable => a
    /\ predLog' = Append(predLog, [err |-> result[1].err, ans |-> a])
    /\ IF ~a
         THEN /\ ret' = Some([ctx |-> lctx[1], result |-> result[1]])
              /\ pc' = "returned"
         ELSE /\ pc' = "next"
              /\ UNCHANGED ret
    /\ UNCHANGED <<fields, lctx, arg, result, dur, durations, supplied, aux,
                   begun, opLog, nextLog, notifyLog, sleepLog>>

\* A mutant of BackoffNext: exhaustion returns a synthetic error.
BackoffNextSynthetic ==
    /\ pc = "next"
    /\ IF backoff = <<>>
         THEN /\ nextLog' = Append(nextLog, None)
              /\ ret' = Some([ctx |-> lctx[1], result |-> Err("exhausted")])
              /\ pc' = "returned"
              /\ UNCHANGED <<backoff, dur>>
         ELSE /\ nextLog' = Append(nextLog, Some(Head(backoff)))
              /\ dur' = Some(Head(backoff))
              /\ backoff' = Tail(backoff)
              /\ pc' = "notify"
              /\ UNCHANGED ret
    /\ UNCHANGED <<retryable, notify, sleep_fn, ctx, lctx, arg, result,
                   durations, supplied, aux, begun, opLog, predLog, notifyLog, sleepLog>>

\* A mutant of BackoffNext: the last duration is taken for exhaustion.
BackoffNextOffByOne ==
    /\ pc = "next"
    /\ IF Len(backoff) <= 1
         THEN /\ nextLog' = Append(nextLog, None)
              /\ ret' = Some([ctx |-> lctx[1], result |-> result[1]])
              /\ pc' = "returned"
              /\ UNCHANGED <<backoff, dur>>
         ELSE /\ nextLog' = Append(nextLog, Some(Head(backoff)))
              /\ dur' = Some(Head(backoff))
              /\ backoff' = Tail(backoff)
              /\ pc' = "notify"
              /\ UNCHANGED ret
    /\ UNCHANGED <<retryable, notify, sleep_fn, ctx, lctx, arg, result,
                   durations, supplied, aux, begun, opLog, predLog, notifyLog, sleepLog>>

\* A mutant of BackoffNext: Some(dur) goes straight to the sleeper.
BackoffNextSkipNotify ==
    /\ pc = "next"
    /\ IF backoff = <<>>
         THEN /\ nextLog' = Append(nextLog, None)
              /\ ret' = Some([ctx |-> lctx[1], result |-> result[1]])
              /\ pc' = "returned"
              /\ UNCHANGED <<backoff, dur>>
         ELSE /\ nextLog' = Append(nextLog, Some(Head(backoff)))
              /\ dur' = Some(Head(backoff))
              /\ backoff' = Tail(backoff)
              /\ pc' = "sleep"
              /\ UNCHANGED ret
    /\ UNCHANGED <<retryable, notify, sleep_fn, ctx, lctx, arg, result,
                   durations, supplied, aux, begun, opLog, predLog, notifyLog, sleepLog>>

\* A mutant of BackoffNext: a zero duration is taken for exhaustion.
BackoffNextZeroStops ==
    /\ pc = "next"
    /\ IF backoff = <<>> \/ Head(backoff) = 0
         THEN /\ nextLog' = Append(nextLog, IF backoff = <<>> THEN None
                                                              ELSE Some(Head(backoff)))
              /\ ret' = Some([ctx |-> lctx[1], result |-> result[1]])
              /\ pc' = "returned"
              /\ backoff' = IF backoff = <<>> THEN backoff ELSE Tail(backoff)
              /\ UNCHANGED dur
         ELSE /\ nextLog' = Append(nextLog, Some(Head(backoff)))
              /\ dur' = Some(Head(backoff))
              /\ backoff' = Tail(backoff)
              /\ pc' = "notify"
              /\ UNCHANGED ret
    /\ UNCHANGED <<retryable, notify, sleep_fn, ctx, lctx, arg, result,
                   durations, supplied, aux, begun, opLog, predLog, notifyLog, sleepLog>>

\* Lines 170-172: match self.backoff.next() { None => return (ctx, Err(err)),
\* Some(dur) => ... }.  The Backoff yields its next duration and advances; one
\* that never signals exhaustion starts over after its last duration.
BackoffNext ==
    /\ pc = "next"
    /\ IF backoff = <<>>
         THEN /\ nextLog' = Append(nextLog, None)
              /\ ret' = Some([ctx |-> lctx[1], result |-> result[1]])
              /\ pc' = "returned"
              /\ UNCHANGED <<backoff, dur>>
         ELSE /\ nextLog' = Append(nextLog, Some(Head(backoff)))
              /\ dur' = Some(Head(backoff))
              /\ backoff' = IF endless THEN Append(Tail(backoff), Head(backoff))
                                        ELSE Tail(backoff)
              /\ pc' = "notify"
              /\ UNCHANGED ret
    /\ UNCHANGED <<retryable, notify, sleep_fn, ctx, lctx, arg, result,
                   durations, supplied, aux, begun, opLog, predLog, notifyLog, sleepLog>>

\* A mutant of CallNotify: the loop goes on without the pause.
CallNotifyNoSleep ==
    /\ pc = "notify"
    /\ notifyLog' = Append(notifyLog,
                           [hook |-> notify, err |-> result[1].err, dur |-> dur[1]])
    /\ pc' = "invoke"
    /\ UNCHANGED <<fields, locals, durations, supplied, aux,
                   begun, opLog, predLog, nextLog, sleepLog>>

\* Line 173: (self.notify)(&err, dur).
CallNotify ==
    /\ pc = "notify"
    /\ notifyLog' = Append(notifyLog,
                           [hook |-> notify, err |-> result[1].err, dur |-> dur[1]])
    /\ pc' = "sleep"
    /\ UNCHANGED <<fields, locals, durations, supplied, aux,
                   begun, opLog, predLog, nextLog, sleepLog>>

\* A mutant of CallSleep: the pause is dropped, the loop goes on.
CallSleepDropped ==
    /\ pc = "sleep"
    /\ pc' = "invoke"
    /\ UNCHANGED <<fields, locals, durations, supplied, aux, logs>>

\* A mutant of CallSleep: the sleeper gets the first duration every time.
CallSleepFirstDur ==
    /\ pc = "sleep"
    /\ sleepLog' = Append(sleepLog, [sleeper |-> sleep_fn, dur |-> durations[1]])
    /\ pc' = "invoke"
    /\ UNCHANGED <<fields, locals, durations, supplied, aux,
                   begun, opLog, predLog, nextLog, notifyLog>>

\* A mutant of CallSleep: the sleeper is called twice per retry.
CallSleepTwice ==
    /\ pc = "sleep"
    /\ sleepLog' = Append(Append(sleepLog, [sleeper |-> sleep_fn, dur |-> dur[1]]),
                          [sleeper |-> sleep_fn, dur |-> dur[1]])
    /\ pc' = "invoke"
    /\ UNCHANGED <<fields, locals, durations, supplied, aux,
                   begun, opLog, predLog, nextLog, notifyLog>>

\* A mutant of CallSleep: after the pause call gives up instead of retrying.
CallSleepGivesUp ==
    /\ pc = "sleep"
    /\ sleepLog' = Append(sleepLog, [sleeper |-> sleep_fn, dur |-> dur[1]])
    /\ ret' = Some([ctx |-> lctx[1], result |-> result[1]])
    /\ pc' = "returned"
    /\ UNCHANGED <<fields, lctx, arg, result, dur, durations, supplied, aux,
                   begun, opLog, predLog, nextLog, notifyLog>>

\* Line 174: self.sleep_fn.sleep(dur); then the loop starts over (line 158).
CallSleep ==
    /\ pc = "sleep"
    /\ sleepLog' = Append(sleepLog, [sleeper |-> sleep_fn, dur |-> dur[1]])
    /\ pc' = "invoke"
    /\ UNCHANGED <<fields, locals, durations, supplied, aux,
                   begun, opLog, predLog, nextLog, notifyLog>>

Results == {Ok(v) : v \in Values} \cup {Err(e) : e \in Errors}

Next ==
    \/ \E c \in Contexts : Context(c)
    \/ \E s \in UserSleepers : Sleep(s)
    \/ \E p \in Predicates : When(p)
    \/ \E n \in UserNotifies : Notify(n)
    \/ CallTake
    \/ InvokeF
    \/ \E d \in CtxDeltas, r \in Results : ReturnF(d, r)
    \/ MatchResult
    \/ \E a \in BOOLEAN : CheckRetryable(a)
    \/ BackoffNext
    \/ CallNotify
    \/ CallSleep

----
\* Two executors.  Each is a value of its own: its fields (lines 41-46), the
\* frame of its call, and what was observed of it.
Exec ==
    [backoff |-> backoff, retryable |-> retryable, notify |-> notify,
     sleep_fn |-> sleep_fn, ctx |-> ctx, pc |-> pc, lctx |-> lctx, arg |-> arg,
     result |-> result, dur |-> dur, ret |-> ret, durations |-> durations,
     supplied |-> supplied, begun |-> begun, opLog |-> opLog,
     predLog |-> predLog, nextLog |-> nextLog, notifyLog |-> notifyLog,
     sleepLog |-> sleepLog, applied |-> applied, endless |-> endless,
     plan |-> plan]

\* A mutant of Resume: the two executors use one Backoff between them instead
\* of one built for each.
ResumeSharedBackoff(e) ==
    /\ backoff' = backoff
    /\ retryable' = e.retryable
    /\ notify' = e.notify
    /\ sleep_fn' = e.sleep_fn
    /\ ctx' = e.ctx
    /\ pc' = e.pc
    /\ lctx' = e.lctx
    /\ arg' = e.arg
    /\ result' = e.result
    /\ dur' = e.dur
    /\ ret' = e.ret
    /\ durations' = e.durations
    /\ supplied' = e.supplied
    /\ begun' = e.begun
    /\ opLog' = e.opLog
    /\ predLog' = e.predLog
    /\ nextLog' = e.nextLog
    /\ notifyLog' = e.notifyLog
    /\ sleepLog' = e.sleepLog
    /\ applied' = e.applied
    /\ endless' = e.endless
    /\ plan' = e.plan

\* Executor e goes on where it was: every field, its Backoff included (one
\* builder.build() per retry, line 26), is its own.
Resume(e) ==
    /\ backoff' = e.backoff
    /\ retryable' = e.retryable
    /\ notify' = e.notify
    /\ sleep_fn' = e.sleep_fn
    /\ ctx' = e.ctx
    /\ pc' = e.pc
    /\ lctx' = e.lctx
    /\ arg' = e.arg
    /\ result' = e.result
    /\ dur' = e.dur
    /\ ret' = e.ret
    /\ durations' = e.durations
    /\ supplied' = e.supplied
    /\ begun' = e.begun
    /\ opLog' = e.opLog
    /\ predLog' = e.predLog
    /\ nextLog' = e.nextLog
    /\ notifyLog' = e.notifyLog
    /\ sleepLog' = e.sleepLog
    /\ applied' = e.applied
    /\ endless' = e.endless
    /\ plan' = e.plan

Finished(e) == e.pc \in {"returned", "panicked"}

\* The Operation steps of a script: a failure with either error and a success,
\* each with its effect on the counter in the context.
ScriptSteps ==
    { [d |-> 1, r |-> Err("retryable")],
      [d |-> 0, r |-> Err("fatal")],
      [d |-> 1, r |-> Ok(42)] }

\* A script says what invocations 1, 2, 3 do, and starts over after that.
Scripts == [1..3 -> ScriptSteps]

ScriptStep == script[((begun - 1) % Len(script)) + 1]

\* The Backoffs the builder of two executors that are compared can build: the
\* durations 1, 2, 0, 1, ... up to any length within PairBackoff.
PairBackoffs == {[i \in 1..k |-> i % 3] : k \in 0..PairBackoff}

\* Two executors built from the same builder and Operation script.  The first
\* is configured in the declared order, the second in any order.
PairInit ==
    /\ New(PairBackoffs)
    /\ endless = FALSE
    /\ script \in Scripts
    /\ plan = [i \in 1..4 |-> i]
    /\ \E q \in Orders : other = Some([Exec EXCEPT !.plan = q])

\* The caller applies the next configuration method of the executor's plan.
NextMethod(m) ==
    /\ Cardinality(applied) < 4
    /\ Methods[plan[Cardinality(applied) + 1]] = m

PairContext == NextMethod("context") /\ Context(PairArgs.context)

PairSleep == NextMethod("sleep") /\ Sleep(PairArgs.sleep)

PairWhen == NextMethod("when") /\ When(PairArgs.when)

PairNotify == NextMethod("notify") /\ Notify(PairArgs.notify)

\* The caller calls the configured executor.
PairCall == Cardinality(applied) = 4 /\ CallTake

\* The Operation follows the script.
PairReturnF == ReturnF(ScriptStep.d, ScriptStep.r)

\* The predicate of the running executor answers by its own count of
\* evaluations.
PairCheckRetryable ==
    CheckRetryable(PairPredicate(Len(predLog) + 1, result[1].err))

\* The other executor steps next: nothing orders the steps of two executors,
\* so they take turns at any point.  Two executors in the same state are not
\* told apart.
Switch ==
    /\ other # None
    /\ Exec # other[1]
    /\ other' = Some(Exec)
    /\ Resume(other[1])
    /\ UNCHANGED script

PairNext ==
    \/ PairContext
    \/ PairSleep
    \/ PairWhen
    \/ PairNotify
    \/ PairCall
    \/ InvokeF
    \/ PairReturnF
    \/ MatchResult
    \/ PairCheckRetryable
    \/ BackoffNext
    \/ CallNotify
    \/ CallSleep
    \/ Switch

PairSpec == PairInit /\ [][PairNext]_vars

Spec == Init /\ [][Next]_vars

\* The steps of a call that has taken its context.  The caller's thread runs
\* them one after the other, and each call into caller-supplied code returns.
Running ==
    \/ InvokeF
    \/ \E d \in CtxDeltas, r \in Results : ReturnF(d, r)
    \/ MatchResult
    \/ \E a \in BOOLEAN : CheckRetryable(a)
    \/ BackoffNext
    \/ CallNotify
    \/ CallSleep

LiveSpec == LiveInit /\ [][Next]_vars /\ WF_vars(Running)

----
\* Observations shared by the properties below.

Returned == pc = "returned"

\* Invocation i of the Operation failed and the predicate, asked about its
\* error, accepted it.  Every invocation before the latest failed and was put
\* to the predicate, so evaluation i is about invocation i.
AcceptedFailure(i) == ~opLog[i].res.ok /\ i <= Len(predLog) /\ predLog[i].ans

\* Invocation i of the Operation failed and the predicate rejected its error.
RejectedFailure(i) == ~opLog[i].res.ok /\ i <= Len(predLog) /\ ~predLog[i].ans

AllAcceptedFailures(n) == \A i \in 1..n : AcceptedFailure(i)

\* The failed invocations among the first n.
Failed(n) == {i \in 1..n : ~opLog[i].res.ok}

\* The failed invocations among the first n whose error the predicate accepted.
Accepted(n) == {i \in 1..n : AcceptedFailure(i)}

\* The Backoff results so far that carried a duration.
Yielded == {i \in 1..Len(nextLog) : nextLog[i] # None}

----
\* C1: when the Operation fails with an error the predicate rejects, the
\* Operation is invoked exactly once, the notify hook and the sleeper are never
\* invoked, and call returns Err with exactly that invocation's error.
C1_NonRetryableOnce ==
    (Len(opLog) >= 1 /\ RejectedFailure(1)) =>
        /\ begun = 1
        /\ Len(opLog) = 1
        /\ Len(predLog) = 1
        /\ notifyLog = <<>>
        /\ sleepLog = <<>>
        /\ nextLog = <<>>
        /\ backoff = durations
        /\ Returned
        /\ ret[1].result = Err(opLog[1].res.err)

C1_Witness ==
    /\ Returned
    /\ Len(opLog) = 1
    /\ opLog[1].res = Err("fatal")
    /\ retryable = "user_predicate"
    /\ predLog = <<[err |-> "fatal", ans |-> FALSE]>>
    /\ Len(durations) >= 1
    /\ ret[1].result = Err("fatal")

\* C2: if attempts 1..K-1 fail with accepted errors and attempt K succeeds, and
\* the Backoff yields at least K-1 durations, call invokes the Operation exactly
\* K times, the notify hook and the sleeper exactly K-1 times each, and returns
\* Ok with the value of attempt K; and call does not return before attempt K.
C2_SucceedsOnKth ==
    /\ (Returned /\ opLog[Len(opLog)].res.ok /\ AllAcceptedFailures(Len(opLog) - 1)) =>
          /\ begun = Len(opLog)
          /\ Len(notifyLog) = Len(opLog) - 1
          /\ Len(sleepLog) = Len(opLog) - 1
          /\ ret[1].result = Ok(opLog[Len(opLog)].res.val)
    /\ (AllAcceptedFailures(Len(opLog)) /\ Len(opLog) <= Len(durations)) => ~Returned

C2_Witness ==
    /\ Returned
    /\ Len(opLog) = 3
    /\ AllAcceptedFailures(2)
    /\ opLog[3].res = Ok(42)
    /\ Len(sleepLog) = 2
    /\ ret[1].result = Ok(42)

\* C3: if the Backoff yields exactly N durations and the Operation always fails
\* with an accepted error, call invokes the Operation exactly N+1 times and
\* returns Err with the error of invocation N+1.
C3_ExhaustedAfterNPlusOne ==
    /\ (Returned /\ AllAcceptedFailures(Len(opLog))) =>
          /\ begun = Len(durations) + 1
          /\ Len(opLog) = Len(durations) + 1
          /\ ret[1].result = Err(opLog[Len(durations) + 1].res.err)
    /\ AllAcceptedFailures(Len(opLog)) => Len(opLog) <= Len(durations) + 1

C3_Witness ==
    /\ Returned
    /\ retryable = DefaultRetryable
    /\ Len(durations) = 2
    /\ Len(opLog) = 3
    /\ AllAcceptedFailures(3)
    /\ opLog[2].res.err # opLog[3].res.err
    /\ ret[1].result = Err(opLog[3].res.err)

\* C4: the first invocation receives the context given to `context`, every
\* later one the context returned by the invocation before it, and call
\* returns the context returned by the last invocation; if every invocation
\* increments the counter, the returned context shows one increment each.
C4_ContextThreading ==
    /\ Len(opLog) >= 1 => opLog[1].cin = supplied[1]
    /\ \A i \in 1..(Len(opLog) - 1) : opLog[i + 1].cin = opLog[i].cout
    /\ (pc = "in_f" /\ Len(opLog) >= 1) => arg = Some(opLog[Len(opLog)].cout)
    /\ Returned => ret[1].ctx = opLog[Len(opLog)].cout
    /\ (Returned /\ \A i \in 1..Len(opLog) : opLog[i].cout = opLog[i].cin + 1) =>
          ret[1].ctx = supplied[1] + Len(opLog)

C4_Witness ==
    /\ Returned
    /\ Len(opLog) = 3
    /\ \A i \in 1..3 : opLog[i].cout = opLog[i].cin + 1
    /\ ~opLog[3].res.ok
    /\ supplied = Some(1)
    /\ ret[1].ctx = 4

\* C5: whenever call returns, its result is exactly the result of the most
\* recent invocation: Err(e) carries that invocation's error on the rejection
\* path and on the exhaustion path, and Ok is returned exactly when it succeeded.
C5_ErrorVerbatim ==
    Returned =>
        /\ Len(opLog) >= 1
        /\ ret[1].result = opLog[Len(opLog)].res
        /\ ret[1].result.ok <=> opLog[Len(opLog)].res.ok

C5_Witness ==
    /\ Returned
    /\ Len(opLog) = 2
    /\ opLog[1].res = Err("retryable")
    /\ opLog[2].res = Err("fatal")
    /\ nextLog = <<Some(1), None>>
    /\ ret[1].result = Err("fatal")

\* C6: call on an executor that never got a context panics before any effect:
\* no invocation, no Backoff query, no predicate, notify or sleeper call, and
\* nothing is returned.
C6_MissingContextPanics ==
    (supplied = None /\ pc # "built") =>
        /\ pc = "panicked"
        /\ begun = 0
        /\ opLog = <<>>
        /\ predLog = <<>>
        /\ nextLog = <<>>
        /\ backoff = durations
        /\ notifyLog = <<>>
        /\ sleepLog = <<>>
        /\ ret = None

C6_Witness ==
    /\ pc = "panicked"
    /\ supplied = None
    /\ ctx = None
    /\ retryable = "user_predicate"
    /\ Len(durations) = 2

\* C7: the notify hook for attempt N runs after invocation N has returned and
\* the predicate has evaluated its error, and before the sleeper runs for
\* attempt N; the sleeper never runs for an attempt not yet notified.
C7_NotifyBetweenEvalAndSleep ==
    [][ /\ Len(notifyLog') > Len(notifyLog) =>
              /\ Len(notifyLog') = Len(notifyLog) + 1
              /\ begun = Len(notifyLog')
              /\ Len(opLog) = Len(notifyLog')
              /\ Len(predLog) = Len(notifyLog')
              /\ predLog[Len(predLog)].err = opLog[Len(opLog)].res.err
              /\ Len(sleepLog) = Len(notifyLog)
              /\ sleepLog' = sleepLog
        /\ Len(sleepLog') > Len(sleepLog) =>
              /\ Len(sleepLog') = Len(sleepLog) + 1
              /\ Len(notifyLog) = Len(sleepLog')
              /\ notifyLog' = notifyLog
              /\ begun = Len(sleepLog')
      ]_vars

C7_Witness ==
    /\ Len(notifyLog) = 2
    /\ Len(sleepLog) = 2
    /\ Len(opLog) = 2
    /\ pc = "invoke"

\* C8: the i-th notify call gets the error of the i-th invocation and the i-th
\* duration the Backoff yielded, and the i-th sleeper call gets that duration.
C8_NotifyAndSleepArguments ==
    /\ \A i \in 1..Len(notifyLog) :
          /\ notifyLog[i].err = opLog[i].res.err
          /\ ~opLog[i].res.ok
          /\ notifyLog[i].dur = durations[i]
          /\ nextLog[i] = Some(durations[i])
          /\ notifyLog[i].hook = notify
    /\ \A i \in 1..Len(sleepLog) :
          /\ sleepLog[i].dur = durations[i]
          /\ sleepLog[i].dur = notifyLog[i].dur
          /\ sleepLog[i].sleeper = sleep_fn

C8_Witness ==
    /\ Returned
    /\ retryable = "user_predicate"
    /\ notify = "user_notify"
    /\ durations = <<1, 2>>
    /\ begun = 3
    /\ notifyLog = << [hook |-> "user_notify", err |-> "retryable", dur |-> 1],
                      [hook |-> "user_notify", err |-> "retryable", dur |-> 2] >>
    /\ Len(sleepLog) = 2
    /\ sleepLog[1].dur = 1
    /\ sleepLog[2].dur = 2
    /\ ret[1].result = Ok(42)

\* C9: invocation N+1 begins only after invocation N has returned, its outcome
\* has been evaluated and the sleeper call of attempt N has returned; at most
\* one invocation is in flight, and each attempt makes exactly one invocation.
C9_StrictlySequential ==
    /\ [](begun - Len(opLog) \in {0, 1})
    /\ []((begun - Len(opLog) = 1) <=> (pc = "in_f"))
    /\ [][ begun' # begun =>
              /\ begun' = begun + 1
              /\ Len(opLog) = begun
              /\ Len(predLog) = begun
              /\ Len(nextLog) = begun
              /\ Len(notifyLog) = begun
              /\ Len(sleepLog) = begun
              /\ \A i \in 1..begun : AcceptedFailure(i)
      ]_vars

C9_Witness ==
    /\ pc = "in_f"
    /\ begun = 3
    /\ Len(opLog) = 2
    /\ Len(sleepLog) = 2

\* C10: once call has decided its return value, no further invocation,
\* predicate evaluation, Backoff query, notify call or sleeper call occurs.
C10_TerminalAbsorbing ==
    [][ ret # None =>
            /\ ret' = ret
            /\ pc' = "returned"
            /\ backoff' = backoff
            /\ UNCHANGED logs
      ]_vars

C10_Witness ==
    /\ Returned
    /\ ret # None
    /\ ret[1].result.ok
    /\ backoff # <<>>
    /\ Len(opLog) = 2

----
\* C11 as stated: the Backoff is consulted exactly once per failed attempt, for
\* every failed attempt of a call.
C11_OncePerFailedAttempt ==
    Returned => Len(nextLog) = Cardinality(Failed(Len(opLog)))

\* C11 as amended: the Backoff is consulted exactly once per failed attempt whose
\* error the predicate accepted, after the predicate has accepted it, and not at
\* all for a failed attempt whose error the predicate rejected.
C11_OncePerAcceptedFailure ==
    /\ pc \in {"match", "retryable", "next"} =>
          Len(nextLog) = Cardinality(Accepted(Len(opLog) - 1))
    /\ pc \in {"notify", "sleep", "invoke", "in_f", "returned"} =>
          Len(nextLog) = Cardinality(Accepted(Len(opLog)))
    /\ (Returned /\ RejectedFailure(Len(opLog))) =>
          /\ Len(nextLog) = Len(opLog) - 1
          /\ Len(nextLog) < Cardinality(Failed(Len(opLog)))

C11_Witness ==
    /\ Returned
    /\ Len(opLog) = 3
    /\ RejectedFailure(3)
    /\ nextLog = <<Some(0), Some(2)>>
    /\ backoff = <<>>

----
\* C13: a Backoff result of Some(0) is a retry like any other: the notify hook
\* and the sleeper are called with the zero duration and the Operation is
\* invoked again; only a None result ends the loop through exhaustion.
C13_ZeroDurationRetries ==
    /\ \A i \in 1..Len(nextLog) :
          nextLog[i] = Some(0) =>
              /\ (i < Len(nextLog) \/ pc # "notify") =>
                    /\ Len(notifyLog) >= i
                    /\ notifyLog[i].dur = 0
              /\ (i < Len(nextLog) \/ pc \notin {"notify", "sleep"}) =>
                    /\ Len(sleepLog) >= i
                    /\ sleepLog[i].dur = 0
              /\ (i < Len(nextLog) \/ pc \notin {"notify", "sleep", "invoke"}) =>
                    begun >= i + 1
              /\ Returned => Len(opLog) >= i + 1
    /\ (Returned /\ AcceptedFailure(Len(opLog))) =>
          /\ Len(nextLog) = Len(opLog)
          /\ nextLog[Len(nextLog)] = None
          /\ \A i \in 1..(Len(nextLog) - 1) : nextLog[i] # None

C13_Witness ==
    /\ Returned
    /\ durations = <<0, 0>>
    /\ Len(opLog) = 3
    /\ AllAcceptedFailures(3)
    /\ Len(notifyLog) = 2
    /\ notifyLog[1].dur = 0
    /\ sleepLog[2].dur = 0
    /\ nextLog = <<Some(0), Some(0), None>>

----
\* The places that can hold the context: the executor's field, call's local
\* (moved into the return value when call returns, line 164, 167 or 171), the
\* in-flight invocation, and the value call has returned to the caller.
Slots ==
    << ctx,
       IF ret = None THEN lctx ELSE None,
       arg,
       IF ret = None THEN None ELSE Some(ret[1].ctx) >>

Holders == {i \in 1..4 : Slots[i] # None}

Holder ==
    IF ret # None \/ Holders = {} THEN "caller"
    ELSE IF arg # None THEN "operation"
    ELSE "executor"

\* C15: from `context` to the return of call the context has exactly one
\* holder, handed caller -> executor -> Operation -> executor -> caller; while
\* the predicate, the Backoff, the notify hook or the sleeper runs, the executor
\* holds it and the Operation does not.
C15_SingleOwner ==
    /\ [](supplied = None => Holders = {})
    /\ [](supplied # None => Cardinality(Holders) = 1)
    /\ [](pc = "built" => ctx = supplied)
    /\ [](pc = "in_f" <=> arg # None)
    /\ [](pc \in {"invoke", "match", "retryable", "next", "notify", "sleep"} =>
              Holders = {2})
    /\ [](Returned => Holders = {4})
    /\ [][ Holder' # Holder =>
              <<Holder, Holder'>> \in { <<"caller", "executor">>,
                                        <<"executor", "operation">>,
                                        <<"operation", "executor">>,
                                        <<"executor", "caller">> } ]_vars

C15_Witness ==
    /\ pc = "sleep"
    /\ Len(opLog) = 2
    /\ lctx = Some(3)
    /\ arg = None
    /\ ctx = None
    /\ Holder = "executor"

----
\* The fields a configuration step replaces.
Replaced ==
    {f \in {"ctx", "retryable", "notify", "sleep_fn", "backoff"} :
        \/ f = "ctx" /\ ctx' # ctx
        \/ f = "retryable" /\ retryable' # retryable
        \/ f = "notify" /\ notify' # notify
        \/ f = "sleep_fn" /\ sleep_fn' # sleep_fn
        \/ f = "backoff" /\ backoff' # backoff}

\* C17: each configuration method replaces one field and leaves the others
\* alone: `context` only the context (a later call overwrites an earlier one),
\* `when` only the predicate, `notify` only the hook, `sleep` only the sleeper;
\* none advances the Backoff or invokes the Operation, and a context set
\* earlier survives later `when`, `notify` and `sleep` calls.
C17_ConfigFrame ==
    [][ (pc = "built" /\ pc' = "built") =>
            /\ Cardinality(Replaced) <= 1
            /\ "backoff" \notin Replaced
            /\ UNCHANGED <<locals, durations, logs>>
            /\ "context" \in applied' \ applied => Replaced \subseteq {"ctx"}
            /\ "when" \in applied' \ applied => Replaced \subseteq {"retryable"}
            /\ "notify" \in applied' \ applied => Replaced \subseteq {"notify"}
            /\ "sleep" \in applied' \ applied => Replaced \subseteq {"sleep_fn"}
            /\ supplied' # supplied => (Replaced = {"ctx"} /\ ctx' = supplied')
            /\ "ctx" \in Replaced => (ctx' # None /\ ctx' = supplied')
            /\ retryable' # retryable => "when" \in applied'
            /\ notify' # notify => "notify" \in applied'
            /\ sleep_fn' # sleep_fn => "sleep" \in applied'
      ]_vars

C17_Witness ==
    /\ pc = "built"
    /\ applied = {"context", "when", "notify", "sleep"}
    /\ ctx = Some(1)
    /\ retryable = "user_predicate"
    /\ notify = "user_notify"
    /\ sleep_fn = "user_sleeper"
    /\ backoff = durations
    /\ Len(backoff) = 2

----
\* C18: the predicate is evaluated exactly once per failed attempt, on that
\* attempt's error, before the Backoff is consulted for it; it is never
\* evaluated for a successful attempt, which leaves the Backoff, the notify hook
\* and the sleeper untouched as well.
C18_PredicateOncePerFailure ==
    /\ [](\A i \in 1..Len(predLog) :
              /\ i <= Len(opLog)
              /\ ~opLog[i].res.ok
              /\ predLog[i].err = opLog[i].res.err)
    /\ [](pc \in {"match", "retryable"} =>
              Len(predLog) = Cardinality(Failed(Len(opLog) - 1)))
    /\ [](pc \in {"next", "notify", "sleep", "invoke", "in_f", "returned"} =>
              Len(predLog) = Cardinality(Failed(Len(opLog))))
    /\ [](Len(nextLog) <= Len(predLog))
    /\ []((Returned /\ opLog[Len(opLog)].res.ok) =>
              /\ Len(predLog) = Len(opLog) - 1
              /\ Len(nextLog) = Len(opLog) - 1
              /\ Len(notifyLog) = Len(opLog) - 1
              /\ Len(sleepLog) = Len(opLog) - 1
              /\ backoff = SubSeq(durations, Len(opLog), Len(durations)))
    /\ [][ /\ nextLog' # nextLog =>
                 /\ Len(predLog) = Len(opLog)
                 /\ Len(nextLog) = Len(predLog) - 1
                 /\ predLog' = predLog
           /\ (pc = "match" /\ result[1].ok) =>
                 UNCHANGED <<backoff, predLog, nextLog, notifyLog, sleepLog>>
      ]_vars

C18_Witness ==
    /\ Returned
    /\ Len(opLog) = 3
    /\ opLog[3].res.ok
    /\ predLog = <<[err |-> "retryable", ans |-> TRUE], [err |-> "fatal", ans |-> TRUE]>>
    /\ Len(nextLog) = 2
    /\ Len(durations) = 2

----
\* The evaluations of the predicate so far that accepted the error.
AcceptedEvaluations == {i \in 1..Len(predLog) : predLog[i].ans}

\* C19: backoff.next() is called only for failures the predicate accepted, so
\* the number of next() calls equals the number of accepted failures, which may
\* be smaller than the number of failed attempts; a rejected failure leaves the
\* Backoff where it was.
C19_RejectionLeavesBackoff ==
    /\ pc = "next" => Len(nextLog) = Cardinality(AcceptedEvaluations) - 1
    /\ pc # "next" => Len(nextLog) = Cardinality(AcceptedEvaluations)
    /\ Len(nextLog) <= Cardinality(Failed(Len(opLog)))
    /\ backoff = SubSeq(durations, Cardinality(Yielded) + 1, Len(durations))
    /\ (Returned /\ RejectedFailure(Len(opLog))) =>
          /\ Len(nextLog) = Cardinality(Failed(Len(opLog))) - 1
          /\ Yielded = 1..(Len(opLog) - 1)
          /\ backoff = SubSeq(durations, Len(opLog), Len(durations))

C19_Witness ==
    /\ Returned
    /\ Len(opLog) = 2
    /\ AcceptedFailure(1)
    /\ RejectedFailure(2)
    /\ opLog[1].res = opLog[2].res
    /\ durations = <<1, 2>>
    /\ backoff = <<2>>
    /\ Len(nextLog) = 1
    /\ Cardinality(Failed(2)) = 2

----
\* C20 as stated: in every reachable state of call the notify calls are as many
\* as the Some(duration) results of the Backoff, the sleeper calls as many as
\* the notify calls or one fewer, and the invocations at most the sleeper calls
\* plus one; when call returns, invocations = notify calls + 1 = sleeper calls + 1.
C20_CountsAsStated ==
    /\ Len(notifyLog) = Cardinality(Yielded)
    /\ Len(sleepLog) \in {Len(notifyLog), Len(notifyLog) - 1}
    /\ begun <= Len(sleepLog) + 1
    /\ Returned =>
          /\ begun = Len(notifyLog) + 1
          /\ begun = Len(sleepLog) + 1

\* C20 as amended: the notify calls are as many as the Some(duration) results
\* of the Backoff, or one fewer between the Backoff's answer and the notify
\* call; the rest as stated.
C20_Counts ==
    /\ pc = "notify" => Len(notifyLog) = Cardinality(Yielded) - 1
    /\ pc # "notify" => Len(notifyLog) = Cardinality(Yielded)
    /\ pc = "sleep" => Len(sleepLog) = Len(notifyLog) - 1
    /\ pc # "sleep" => Len(sleepLog) = Len(notifyLog)
    /\ begun <= Len(sleepLog) + 1
    /\ Returned =>
          /\ begun = Len(notifyLog) + 1
          /\ begun = Len(sleepLog) + 1
          /\ Len(opLog) = begun

C20_Witness ==
    /\ pc = "notify"
    /\ Cardinality(Yielded) = 2
    /\ Len(notifyLog) = 1
    /\ Len(sleepLog) = 1
    /\ begun = 2

----
\* C14: if every call into caller-supplied code returns, call with a Backoff of
\* finitely many durations eventually returns, and it returns only when the
\* latest attempt succeeded, the predicate rejected the latest error, or the
\* Backoff signalled exhaustion after the latest error; with a Backoff that
\* never signals exhaustion and an Operation that always fails with an accepted
\* error, call never returns.
C14_Termination ==
    /\ (~endless /\ pc = "invoke") ~> Returned
    /\ [](Returned =>
              \/ opLog[Len(opLog)].res.ok
              \/ RejectedFailure(Len(opLog))
              \/ /\ AcceptedFailure(Len(opLog))
                 /\ Len(nextLog) = Len(opLog)
                 /\ nextLog[Len(nextLog)] = None
                 /\ ~endless)
    /\ []((endless /\ AllAcceptedFailures(Len(opLog))) => ~Returned)
    /\ []((endless /\ Returned) =>
              \/ opLog[Len(opLog)].res.ok
              \/ RejectedFailure(Len(opLog)))

C14_Witness ==
    /\ endless
    /\ begun = MaxAttempts
    /\ pc = "invoke"
    /\ AllAcceptedFailures(MaxAttempts)
    /\ Len(sleepLog) = MaxAttempts
    /\ Len(durations) = 1

----
\* What a caller observes of an executor: how call ended, the number of
\* invocations, the notify calls, the sleeper calls and the returned pair.
Observed(e) ==
    [pc |-> e.pc, begun |-> e.begun, notifyLog |-> e.notifyLog,
     sleepLog |-> e.sleepLog, ret |-> e.ret]

\* The configuration an executor carries.
Configured(e) ==
    [backoff |-> e.backoff, retryable |-> e.retryable, notify |-> e.notify,
     sleep_fn |-> e.sleep_fn, ctx |-> e.ctx]

\* C12: for a fixed Operation script, Backoff and arguments, applying `context`,
\* `sleep`, `when` and `notify` in any order before call gives the same
\* configuration and the same observable behaviour: the same invocations,
\* notify calls, sleeper calls and returned (context, result).
C12_OrderIndependent ==
    other # None =>
        /\ (pc = "built" /\ other[1].pc = "built"
                /\ Cardinality(applied) = 4 /\ Cardinality(other[1].applied) = 4) =>
              Configured(Exec) = Configured(other[1])
        /\ (Finished(Exec) /\ Finished(other[1])) =>
              /\ Observed(Exec) = Observed(other[1])
              /\ pc = "returned"

C12_Witness ==
    /\ other # None
    /\ Finished(Exec)
    /\ Finished(other[1])
    /\ plan = <<4, 3, 2, 1>>
    /\ other[1].plan = <<1, 2, 3, 4>>
    /\ begun = 3
    /\ Len(notifyLog) = 2
    /\ notifyLog[1].hook = "user_notify"
    /\ sleepLog[2] = [sleeper |-> "user_sleeper", dur |-> 2]
    /\ ret = Some([ctx |-> 4, result |-> Ok(42)])
    /\ Observed(Exec) = Observed(other[1])

\* How far an executor has got.
Position(e) == <<e.applied, e.pc, e.begun>>

\* C16: two executors with their own Backoff, context and sleeper, stepped in
\* any interleaving, each behave as when run alone: no step of one changes
\* anything of the other, and whenever both have got to the same point of the
\* same run they are in the same state, however the steps were interleaved.
C16_IndependentExecutors ==
    /\ []((other # None /\ plan = other[1].plan
              /\ Position(Exec) = Position(other[1])) => Exec = other[1])
    /\ []((other # None /\ plan = other[1].plan
              /\ Finished(Exec) /\ Finished(other[1])) =>
                  Observed(Exec) = Observed(other[1]))
    /\ [][ other # None =>
              \/ other' = other
              \/ (other' = Some(Exec) /\ Exec' = other[1]) ]_vars

C16_Witness ==
    /\ other # None
    /\ plan = other[1].plan
    /\ pc = "sleep"
    /\ begun = 2
    /\ other[1].pc = "in_f"
    /\ other[1].begun = 1
    /\ backoff = <<>>
    /\ other[1].backoff = <<1, 2>>
    /\ durations = other[1].durations

====
